---- MODULE Spec2Model ----
(***************************************************************************)
(* A model of scraper.py (sl-political-war-tracker): the scraping loop of  *)
(* main, scrape_site's extraction, detect_player, analyze_sentiment,       *)
(* calculate_metrics, generate_report, the snapshot write and the console  *)
(* summary.                                                                *)
(*                                                                         *)
(* Representation.                                                         *)
(*  - A text is a record [words, len]: the set of word fragments it is     *)
(*    made of (in their original case) and its length in characters.       *)
(*    Python's `kw in text.lower()` is modelled by lower-casing each       *)
(*    fragment and asking whether kw is a substring of one of them         *)
(*    (SubstringsOf).                                                      *)
(*  - Fractions are kept as scaled integers: a sentiment score and a       *)
(*    per-entity sentiment_score in hundredths, a media_share in tenths,   *)
(*    probabilities and confidences in hundredths, war_intensity in        *)
(*    hundredths.  round(x, k) is round-half-even on the exact quotient;   *)
(*    Python's result on the double agrees with it for every mention       *)
(*    count below 40.                                                      *)
(*  - A dict is a record/function; adding a key is @@.                     *)
(*  - An exception raised inside scrape_site's try block is the raised     *)
(*    flag of extract's result; an uncaught exception in main is           *)
(*    pc = "crashed".                                                      *)
(***************************************************************************)
EXTENDS Integers, Sequences, FiniteSets, TLC

VARIABLES
    pc,            \* position of the run
    srcIdx,        \* main: index of the next source of NEWS_SOURCES
    response,      \* main: what each visited source's fetch returned
    all_articles,  \* main: all_articles / calculate_metrics: articles
    artIdx,        \* calculate_metrics: index of the next article of the loop
    player_stats,  \* calculate_metrics: player_stats
    metrics,       \* calculate_metrics: its return value
    report,        \* generate_report: its return value
    snapshots,     \* the documents written to data/political_war_data.json
    console,       \* the console summary: status and prediction lines printed
    text,          \* analyze_sentiment: its argument
    sentiment,     \* analyze_sentiment: its return value
    markup,        \* scrape_site: the candidate elements of the fetched page
    scraped        \* scrape_site: its return value

vars == <<pc, srcIdx, response, all_articles, artIdx, player_stats, metrics,
          report, snapshots, console, text, sentiment, markup, scraped>>

----------------------------------------------------------------------------
(* Bounds of the model *)

MaxArticles == 3

MaxFetched == 3

MaxMarkup == 3

HeadlineLen == 40

----------------------------------------------------------------------------
(* Static configuration *)

PlayerOrder == <<"anura", "dilith", "sajith", "namal", "ranil">>

Players == {PlayerOrder[i] : i \in 1..Len(PlayerOrder)}

PLAYERS ==
    [p \in Players |->
        CASE p = "anura"  -> [names |-> {"anura", "kumara", "dissanayake", "akd",
                                         "npp", "jvp", "president"},
                              party |-> "NPP", role |-> "President"]
          [] p = "dilith" -> [names |-> {"dilith", "jayaweera", "mjp", "derana",
                                         "sarwajana", "sarwajana balaya"},
                              party |-> "MJP",
                              role |-> "Opposition Leader (de facto)"]
          [] p = "sajith" -> [names |-> {"sajith", "premadasa", "sjb", "samagi",
                                         "samagi balawegaya"},
                              party |-> "SJB",
                              role |-> "Opposition Leader (official)"]
          [] p = "namal"  -> [names |-> {"namal", "rajapaksa", "slpp", "mahinda",
                                         "gotabaya", "basil", "gota"},
                              party |-> "SLPP", role |-> "Dynasty Scion"]
          [] p = "ranil"  -> [names |-> {"ranil", "wickremesinghe", "unp",
                                         "wickremasinghe", "old president"},
                              party |-> "UNP",
                              role |-> "Former President (jailed)"]]

SourceOrder == <<"adaderana", "dailymirror", "themorning", "newsfirst">>

NEWS_SOURCES ==
    [s \in {SourceOrder[i] : i \in 1..Len(SourceOrder)} |->
        CASE s = "adaderana"   -> "https://www.adaderana.lk/news.php"
          [] s = "dailymirror" -> "https://www.dailymirror.lk/news"
          [] s = "themorning"  -> "https://www.themorning.lk"
          [] s = "newsfirst"   -> "https://www.newsfirst.lk"]

\* The keyword lists of analyze_sentiment.  The Sinhala entries are written
\* in transliteration with the prefix "si:".
positive == {"win", "victory", "success", "good", "great", "excellent", "superb",
             "achieve", "deliver", "promise kept",
             "si:jayagrahanaya", "si:supiri", "si:niyama"}

negative == {"fail", "loss", "bad", "worst", "corrupt", "lie", "cheat", "disaster",
             "crisis", "broken", "useless", "pathetic",
             "si:paavi", "si:asamath", "si:varadi"}

crisis == {"protest", "strike", "uprising", "revolution", "topple", "overthrow",
           "emergency", "crisis", "collapse", "imf", "tariff", "unemployment",
           "si:udghoshana", "si:varjana", "si:arbudaya"}

MinTitleLen == 20

MaxTitleLen == 200

MaxCandidates == 15

SampleSize == 15

----------------------------------------------------------------------------
(* Strings *)

\* str.lower() on one word fragment.
Lower(w) ==
    CASE w = "Anura"     -> "anura"
      [] w = "Dilith"    -> "dilith"
      [] w = "Sajith"    -> "sajith"
      [] w = "Namal"     -> "namal"
      [] w = "Ranil"     -> "ranil"
      [] w = "Gotabaya"  -> "gotabaya"
      [] w = "President" -> "president"
      [] w = "IMF"       -> "imf"
      [] w = "GREAT"     -> "great"
      [] w = "Crisis"    -> "crisis"
      [] OTHER           -> w

\* The configured keywords that are substrings of one lower-case fragment.
SubstringsOf(w) ==
    CASE w = "gotabaya"          -> {"gotabaya", "gota"}
      [] w = "old president"     -> {"old president", "president"}
      [] w = "sarwajana balaya"  -> {"sarwajana balaya", "sarwajana"}
      [] w = "samagi balawegaya" -> {"samagi balawegaya", "samagi"}
      [] w = "winner"            -> {"win"}
      [] w = "believe"           -> {"lie"}
      [] w = "unpaid"            -> {"unp"}
      [] OTHER                   -> {w}

\* text.lower()
lower(t) == [words |-> {Lower(w) : w \in t.words}, len |-> t.len]

\* kw in text_lower
In(kw, text_lower) == \E w \in text_lower.words : kw \in SubstringsOf(w)

Max2(a, b) == IF a >= b THEN a ELSE b

Min2(a, b) == IF a <= b THEN a ELSE b

RoundHalfEven(n, d) ==
    LET q == n \div d
        r == n % d
    IN  IF 2 * r < d THEN q
        ELSE IF 2 * r > d THEN q + 1
        ELSE IF q % 2 = 0 THEN q ELSE q + 1

\* round(n / d * scale, k), the scale folded into n.
Round(n, d) == IF n >= 0 THEN RoundHalfEven(n, d) ELSE 0 - RoundHalfEven(0 - n, d)

RECURSIVE SumOver(_, _)
SumOver(f, S) ==
    IF S = {} THEN 0
    ELSE LET x == CHOOSE y \in S : TRUE IN f[x] + SumOver(f, S \ {x})

----------------------------------------------------------------------------
(* detect_player *)

detect_player(t) ==
    LET text_lower == lower(t)
        score(p) == 3 * Cardinality({name \in PLAYERS[p].names : In(name, text_lower)})
    IN  [p \in Players |-> score(p) > 0]

----------------------------------------------------------------------------
(* analyze_sentiment *)

pos_count(t) == Cardinality({w \in positive : In(w, lower(t))})

neg_count(t) == Cardinality({w \in negative : In(w, lower(t))})

crisis_count(t) == Cardinality({w \in crisis : In(w, lower(t))})

\* A slip that drops the min(..., 0.5) cap.
analyze_sentiment_uncapped(t) ==
    LET p == pos_count(t)
        n == neg_count(t)
    IN  [sentiment |-> IF p > n THEN "positive" ELSE IF n > p THEN "negative" ELSE "neutral",
         score |-> IF p > n THEN 50 + p * 10 ELSE IF n > p THEN 50 - n * 10 ELSE 50,
         crisis_indicators |-> crisis_count(t)]

analyze_sentiment(t) ==
    LET p == pos_count(t)
        n == neg_count(t)
    IN  [sentiment |-> IF p > n THEN "positive" ELSE IF n > p THEN "negative" ELSE "neutral",
         score |-> IF p > n THEN 50 + Min2(p * 10, 50)
                   ELSE IF n > p THEN 50 - Min2(n * 10, 50)
                   ELSE 50,
         crisis_indicators |-> crisis_count(t)]

----------------------------------------------------------------------------
(* scrape_site *)

\* requests.get raised (timeout, connection error, ...).
FetchFailure == [ok |-> FALSE, elements |-> <<>>]

Page(elements) == [ok |-> TRUE, elements |-> elements]

Take(s, n) == SubSeq(s, 1, Min2(Len(s), n))

\* The dict appended for one kept element.
NewArticle(e, source) ==
    [title |-> e.title_tag[1],
     source |-> source,
     url |-> IF e.anchor # "none" THEN e.anchor ELSE "",
     timestamp |-> "now"]

\* The for loop over the candidate elements, inside the try block.  An element
\* is [title_tag, anchor]: title_tag is <<>> (find found nothing) or <<text>>;
\* anchor is "none" (no <a> inside), "nohref" (an <a> without href, whose
\* ['href'] raises KeyError) or the href.
RECURSIVE extract(_, _, _, _)
extract(elements, source, i, articles) ==
    IF i > Len(elements) THEN [raised |-> FALSE, articles |-> articles]
    ELSE LET e == elements[i] IN
         IF e.title_tag = <<>> THEN extract(elements, source, i + 1, articles)
         ELSE LET title == e.title_tag[1] IN
              IF title.len > MinTitleLen /\ title.len < MaxTitleLen
              THEN IF e.anchor = "nohref"
                   THEN [raised |-> TRUE, articles |-> articles]
                   ELSE extract(elements, source, i + 1,
                                Append(articles, NewArticle(e, source)))
              ELSE extract(elements, source, i + 1, articles)

\* A slip: the except branch returns what was collected so far.
scrape_site_partial(resp, source) ==
    IF ~resp.ok THEN <<>>
    ELSE extract(Take(resp.elements, MaxCandidates), source, 1, <<>>).articles

scrape_site(resp, source) ==
    IF ~resp.ok THEN <<>>
    ELSE LET r == extract(Take(resp.elements, MaxCandidates), source, 1, <<>>)
         IN  IF r.raised THEN <<>> ELSE r.articles

----------------------------------------------------------------------------
(* calculate_metrics *)

InitStats ==
    [p \in Players |->
        [mentions |-> 0, positive |-> 0, negative |-> 0, neutral |-> 0,
         crisis_associated |-> 0, headlines |-> <<>>]]

\* The update of one mentioned player's entry.
Tally(s, article, sent) ==
    [s EXCEPT !.mentions = @ + 1,
              !.headlines = Append(@, [title |-> article.title,
                                       sentiment |-> sent.sentiment,
                                       source |-> article.source]),
              !.positive = IF sent.sentiment = "positive" THEN @ + 1 ELSE @,
              !.negative = IF sent.sentiment = "negative" THEN @ + 1 ELSE @,
              !.neutral = IF sent.sentiment \notin {"positive", "negative"}
                          THEN @ + 1 ELSE @,
              !.crisis_associated = @ + sent.crisis_indicators]

\* A slip: if/elif without the final else, so a neutral article is not counted.
accumulate_no_else(stats, article) ==
    LET mentions == detect_player(article.title)
        sent == analyze_sentiment(article.title)
    IN  [p \in Players |->
            IF mentions[p]
            THEN [Tally(stats[p], article, sent) EXCEPT !.neutral = stats[p].neutral]
            ELSE stats[p]]

\* A slip: stop at the first mentioned player (a break in the inner loop).
accumulate_first_only(stats, article) ==
    LET mentions == detect_player(article.title)
        sent == analyze_sentiment(article.title)
        first == {i \in 1..Len(PlayerOrder) :
                    /\ mentions[PlayerOrder[i]]
                    /\ \A j \in 1..(i - 1) : ~mentions[PlayerOrder[j]]}
    IN  [p \in Players |->
            IF \E i \in first : PlayerOrder[i] = p
            THEN Tally(stats[p], article, sent)
            ELSE stats[p]]

\* One iteration of `for article in articles`.
accumulate(stats, article) ==
    LET mentions == detect_player(article.title)
        sent == analyze_sentiment(article.title)
    IN  [p \in Players |->
            IF mentions[p] THEN Tally(stats[p], article, sent) ELSE stats[p]]

total_mentions(stats) == SumOver([p \in Players |-> stats[p].mentions], Players)

\* A slip: the share taken of the article count instead of total_mentions.
finalize_by_articles(stats, articles) ==
    [p \in Players |->
        IF stats[p].mentions > 0
        THEN stats[p] @@
             [media_share |-> Round(stats[p].mentions * 1000, Max2(1, Len(articles))),
              sentiment_score |->
                  Round((stats[p].positive - stats[p].negative) * 100, stats[p].mentions)]
        ELSE stats[p] @@ [media_share |-> 0, sentiment_score |-> 0]]

\* The loop that adds media_share (tenths of a percent) and sentiment_score
\* (hundredths) to every entry.
finalize(stats, articles) ==
    LET total == total_mentions(stats) IN
    [p \in Players |->
        IF stats[p].mentions > 0
        THEN stats[p] @@
             [media_share |-> Round(stats[p].mentions * 1000, Max2(1, total)),
              sentiment_score |->
                  Round((stats[p].positive - stats[p].negative) * 100, stats[p].mentions)]
        ELSE stats[p] @@ [media_share |-> 0, sentiment_score |-> 0]]

\* A slip: max() taken without the `if total_mentions > 0` guard.
dominant_player_unguarded(stats) ==
    LET m == CHOOSE x \in {stats[p].mentions : p \in Players} :
                 \A p \in Players : stats[p].mentions <= x
        i == CHOOSE k \in 1..Len(PlayerOrder) :
                 /\ stats[PlayerOrder[k]].mentions = m
                 /\ \A j \in 1..(k - 1) : stats[PlayerOrder[j]].mentions # m
    IN  PlayerOrder[i]

\* A slip: the last maximal item kept (a scan with >=) instead of the first.
dominant_player_last(stats) ==
    IF total_mentions(stats) > 0
    THEN LET m == CHOOSE x \in {stats[p].mentions : p \in Players} :
                      \A p \in Players : stats[p].mentions <= x
             i == CHOOSE k \in 1..Len(PlayerOrder) :
                      /\ stats[PlayerOrder[k]].mentions = m
                      /\ \A j \in (k + 1)..Len(PlayerOrder) :
                             stats[PlayerOrder[j]].mentions # m
         IN  PlayerOrder[i]
    ELSE "none"

\* max(player_stats.items(), key=mentions)[0] if total_mentions > 0 else 'none':
\* max keeps the first maximal item in iteration order.
dominant_player(stats) ==
    IF total_mentions(stats) > 0
    THEN LET m == CHOOSE x \in {stats[p].mentions : p \in Players} :
                      \A p \in Players : stats[p].mentions <= x
             i == CHOOSE k \in 1..Len(PlayerOrder) :
                      /\ stats[PlayerOrder[k]].mentions = m
                      /\ \A j \in 1..(k - 1) : stats[PlayerOrder[j]].mentions # m
         IN  PlayerOrder[i]
    ELSE "none"

\* min(10, sum(crisis_associated) / max(1, len(articles)) * 5), in hundredths.
war_intensity(stats, articles) ==
    LET c == SumOver([p \in Players |-> stats[p].crisis_associated], Players)
    IN  Min2(1000, (c * 500) \div Max2(1, Len(articles)))

\* The metrics dict, built from the finalized stats.
build_metrics(stats, articles) ==
    [players |-> stats,
     total_articles |-> Len(articles),
     total_mentions |-> total_mentions(stats),
     war_intensity |-> war_intensity(stats, articles),
     dominant_player |-> dominant_player(stats),
     timestamp |-> "now"]

----------------------------------------------------------------------------
(* generate_report *)

\* One battlefield_status entry.  attack_ratio > 0.4 is negative/total > 2/5;
\* sentiment_score is in hundredths, so 0.1 is 10.
player_status(stats) ==
    LET total == stats.mentions
        posture == IF total > 0
                   THEN IF 5 * stats.negative > 2 * total THEN "attacking"
                        ELSE IF 5 * stats.positive > 2 * total THEN "defending"
                        ELSE "neutral"
                   ELSE "neutral"
        trend == IF total > 0
                 THEN IF stats.sentiment_score > 10 THEN "rising"
                      ELSE IF stats.sentiment_score < -10 THEN "falling"
                      ELSE "stable"
                 ELSE "stable"
    IN  [media_presence |-> stats.media_share,
         public_sentiment |-> stats.sentiment_score,
         posture |-> posture,
         trend |-> trend,
         crisis_exposure |-> stats.crisis_associated]

anura_prediction(status) ==
    IF status.trend = "falling"
    THEN [move |-> "Emergency populist measure (fuel subsidy/teacher wage hike)",
          confidence |-> 82, timing |-> "24-48 hours"]
    ELSE [move |-> "Continue IMF path, ignore opposition",
          confidence |-> 75, timing |-> "Ongoing"]

dilith_prediction(status) ==
    IF status.trend = "rising"
    THEN [move |-> "Escalate attacks, formalize opposition coalition",
          confidence |-> 79, timing |-> "Next week"]
    ELSE [move |-> "Consolidate gains, prepare for Budget battle",
          confidence |-> 71, timing |-> "2 weeks"]

opposition_mentions(m) ==
    SumOver([p \in {"dilith", "sajith", "namal"} |-> m.players[p].mentions],
            {"dilith", "sajith", "namal"})

\* A slip: >= in the threshold test.
coalition_prediction_ge(m) ==
    IF 10 * opposition_mentions(m) >= 6 * m.total_mentions
    THEN [formation_probability |-> 73, timeline |-> "2-4 weeks", leader |-> "dilith"]
    ELSE [formation_probability |-> 45, timeline |-> "Uncertain", leader |-> "none"]

\* opposition_mentions > total_mentions * 0.6.  The double product compares
\* with the integer exactly as 6 * total / 10 does (for totals up to 5000).
coalition_prediction(m) ==
    IF 10 * opposition_mentions(m) > 6 * m.total_mentions
    THEN [formation_probability |-> 73, timeline |-> "2-4 weeks", leader |-> "dilith"]
    ELSE [formation_probability |-> 45, timeline |-> "Uncertain", leader |-> "none"]

generate_report(m) ==
    LET status == [p \in Players |-> player_status(m.players[p])] IN
    [timestamp |-> m.timestamp,
     battlefield_status |-> status,
     predictions |-> [anura |-> anura_prediction(status["anura"]),
                      dilith |-> dilith_prediction(status["dilith"]),
                      coalition |-> coalition_prediction(m)],
     active_conflicts |-> <<>>]

----------------------------------------------------------------------------
(* main: the console summary *)

\* The keys the status line of one player reads.
StatusLineKeys == {"media_presence", "sentiment_score", "trend"}

\* The number of status lines printed before a missing key raises KeyError
\* (all of them when none does).
status_lines_printed(r) ==
    LET bad == {i \in 1..Len(PlayerOrder) :
                  ~(StatusLineKeys \subseteq DOMAIN r.battlefield_status[PlayerOrder[i]])}
    IN  IF bad = {} THEN Len(PlayerOrder)
        ELSE (CHOOSE i \in bad : \A j \in bad : i <= j) - 1

\* The predictions printed: the dicts that have a 'move' key.
prediction_lines_printed(r) ==
    Cardinality({k \in DOMAIN r.predictions : "move" \in DOMAIN r.predictions[k]})

----------------------------------------------------------------------------
(* Inputs *)

Text(words, len) == [words |-> words, len |-> len]

Headline(words) == Text(words, HeadlineLen)

\* Headlines the sources may carry.
Headlines ==
    { Headline({"weather", "forecast"}),
      Headline({"Anura", "announces", "success", "GREAT"}),
      Headline({"President", "fail", "protest"}),
      Headline({"dilith", "sajith", "namal", "Crisis"}),
      Headline({"Anura", "Dilith", "Sajith", "Namal"}),
      Headline({"Dilith", "Ranil", "winner"}),
      Headline({"old president", "Anura", "IMF"}),
      Headline({"Gotabaya", "corrupt", "fail"}),
      Headline({"Ranil", "unpaid", "believe", "good"}) }

SeqsUpTo(S, n) == UNION {[1..k -> S] : k \in 0..n}

\* Article lists handed to calculate_metrics.
ArticleLists ==
    SeqsUpTo({[title |-> h, source |-> SourceOrder[1], url |-> "", timestamp |-> "now"] :
                 h \in Headlines}, MaxArticles)

\* Candidate elements of the pages main fetches.
MainElements ==
    { [title_tag |-> <<Headline({"Anura", "announces", "success", "GREAT"})>>,
       anchor |-> "/news/1"],
      [title_tag |-> <<Headline({"dilith", "sajith", "namal", "Crisis"})>>,
       anchor |-> "none"],
      [title_tag |-> <<Text({"Namal"}, MinTitleLen)>>, anchor |-> "/news/2"],
      [title_tag |-> <<Headline({"Ranil", "unpaid", "believe", "good"})>>,
       anchor |-> "nohref"] }

\* Candidate elements of a page handed to scrape_site alone.  An element
\* without a title tag has no anchor either (find would have returned it).
ScrapeElements ==
    {[title_tag |-> <<>>, anchor |-> "none"]}
    \cup {[title_tag |-> <<Text({"Anura", "IMF"}, n)>>, anchor |-> a] :
             n \in {MinTitleLen, MinTitleLen + 1, MaxTitleLen - 1, MaxTitleLen},
             a \in {"none", "nohref", "/news/1"}}

\* Texts handed to analyze_sentiment alone.
SentimentWords ==
    {"win", "victory", "success", "good", "great", "excellent", "GREAT",
     "fail", "loss", "bad", "worst", "corrupt", "Crisis", "protest"}

Unset == [unset |-> TRUE]

----------------------------------------------------------------------------
(* main *)

\* The number of candidate elements fetched so far.
RECURSIVE Fetched(_)
Fetched(rs) == IF rs = <<>> THEN 0 ELSE Len(Head(rs).elements) + Fetched(Tail(rs))

Idle ==
    /\ srcIdx = 1 /\ response = <<>> /\ all_articles = <<>> /\ artIdx = 1
    /\ player_stats = InitStats /\ metrics = Unset /\ report = Unset
    /\ snapshots = <<>> /\ console = [status_lines |-> 0, prediction_lines |-> 0]
    /\ text = Text({}, 0) /\ sentiment = Unset /\ markup = <<>> /\ scraped = <<>>

Init == pc = "scrape" /\ Idle

\* One iteration of `for source, url in NEWS_SOURCES.items()`: the fetch
\* fails or returns a page, and scrape_site's articles extend all_articles.
ScrapeSource ==
    /\ pc = "scrape"
    /\ srcIdx <= Len(SourceOrder)
    /\ \E resp \in {FetchFailure} \cup
                   {Page(es) : es \in SeqsUpTo(MainElements, MaxFetched - Fetched(response))} :
          /\ response' = Append(response, resp)
          /\ all_articles' = all_articles \o scrape_site(resp, SourceOrder[srcIdx])
    /\ srcIdx' = srcIdx + 1
    /\ pc' = IF srcIdx = Len(SourceOrder) THEN "metrics" ELSE "scrape"
    /\ UNCHANGED <<artIdx, player_stats, metrics, report, snapshots, console,
                   text, sentiment, markup, scraped>>

\* calculate_metrics: one iteration of `for article in articles`.
ProcessArticle ==
    /\ pc = "metrics"
    /\ artIdx <= Len(all_articles)
    /\ player_stats' = accumulate(player_stats, all_articles[artIdx])
    /\ artIdx' = artIdx + 1
    /\ UNCHANGED <<pc, srcIdx, response, all_articles, metrics, report, snapshots,
                   console, text, sentiment, markup, scraped>>

\* calculate_metrics after the loop: totals, shares and scores, the metrics dict.
Finalize ==
    /\ pc = "metrics"
    /\ artIdx > Len(all_articles)
    /\ player_stats' = finalize(player_stats, all_articles)
    /\ metrics' = build_metrics(player_stats', all_articles)
    /\ pc' = "report"
    /\ UNCHANGED <<srcIdx, response, all_articles, artIdx, report, snapshots,
                   console, text, sentiment, markup, scraped>>

Report ==
    /\ pc = "report"
    /\ report' = generate_report(metrics)
    /\ pc' = "save"
    /\ UNCHANGED <<srcIdx, response, all_articles, artIdx, player_stats, metrics,
                   snapshots, console, text, sentiment, markup, scraped>>

\* json.dump of the output document.
Save ==
    /\ pc = "save"
    /\ snapshots' = Append(snapshots,
                           [raw_metrics |-> metrics,
                            war_report |-> report,
                            articles_sample |-> Take(all_articles, SampleSize),
                            generated_at |-> "now"])
    /\ pc' = "summary"
    /\ UNCHANGED <<srcIdx, response, all_articles, artIdx, player_stats, metrics,
                   report, console, text, sentiment, markup, scraped>>

\* The console summary.  The status loop reads status['sentiment_score']; a
\* missing key is an uncaught KeyError, which ends the run.
Summary ==
    /\ pc = "summary"
    /\ LET n == status_lines_printed(report) IN
          IF n = Len(PlayerOrder)
          THEN /\ console' = [status_lines |-> n,
                              prediction_lines |-> prediction_lines_printed(report)]
               /\ pc' = "done"
          ELSE /\ console' = [status_lines |-> n, prediction_lines |-> 0]
               /\ pc' = "crashed"
    /\ UNCHANGED <<srcIdx, response, all_articles, artIdx, player_stats, metrics,
                   report, snapshots, text, sentiment, markup, scraped>>

Next == ScrapeSource \/ ProcessArticle \/ Finalize \/ Report \/ Save \/ Summary

Spec == Init /\ [][Next]_vars

----------------------------------------------------------------------------
(* calculate_metrics and generate_report on a given article list *)

InitMetrics ==
    /\ pc = "metrics"
    /\ all_articles \in ArticleLists
    /\ srcIdx = 1 /\ response = <<>> /\ artIdx = 1
    /\ player_stats = InitStats /\ metrics = Unset /\ report = Unset
    /\ snapshots = <<>> /\ console = [status_lines |-> 0, prediction_lines |-> 0]
    /\ text = Text({}, 0) /\ sentiment = Unset /\ markup = <<>> /\ scraped = <<>>

NextMetrics == ProcessArticle \/ Finalize \/ Report

SpecMetrics == InitMetrics /\ [][NextMetrics]_vars

----------------------------------------------------------------------------
(* analyze_sentiment on a given text *)

InitSentiment ==
    /\ pc = "sentiment"
    /\ text \in {Text(ws, HeadlineLen) : ws \in SUBSET SentimentWords}
    /\ srcIdx = 1 /\ response = <<>> /\ all_articles = <<>> /\ artIdx = 1
    /\ player_stats = InitStats /\ metrics = Unset /\ report = Unset
    /\ snapshots = <<>> /\ console = [status_lines |-> 0, prediction_lines |-> 0]
    /\ sentiment = Unset /\ markup = <<>> /\ scraped = <<>>

Analyze ==
    /\ pc = "sentiment"
    /\ sentiment' = analyze_sentiment(text)
    /\ pc' = "analyzed"
    /\ UNCHANGED <<srcIdx, response, all_articles, artIdx, player_stats, metrics,
                   report, snapshots, console, text, markup, scraped>>

NextSentiment == Analyze

SpecSentiment == InitSentiment /\ [][NextSentiment]_vars

----------------------------------------------------------------------------
(* scrape_site on a given page *)

InitScrape ==
    /\ pc = "extract"
    /\ markup \in SeqsUpTo(ScrapeElements, MaxMarkup)
    /\ srcIdx = 1 /\ response = <<>> /\ all_articles = <<>> /\ artIdx = 1
    /\ player_stats = InitStats /\ metrics = Unset /\ report = Unset
    /\ snapshots = <<>> /\ console = [status_lines |-> 0, prediction_lines |-> 0]
    /\ text = Text({}, 0) /\ sentiment = Unset /\ scraped = <<>>

Scrape ==
    /\ pc = "extract"
    /\ scraped' = scrape_site(Page(markup), SourceOrder[1])
    /\ pc' = "extracted"
    /\ UNCHANGED <<srcIdx, response, all_articles, artIdx, player_stats, metrics,
                   report, snapshots, console, text, sentiment, markup>>

NextScrape == Scrape

SpecScrape == InitScrape /\ [][NextScrape]_vars

----------------------------------------------------------------------------
(* Properties *)

Finalized == pc \in {"report", "save", "summary", "done", "crashed"}

Reported == pc \in {"save", "summary", "done", "crashed"}

Matched(article) == {p \in Players : detect_player(article.title)[p]}

\* C1: for every tracked entity, in every state of the accumulation loop and
\* in the finalized stats, mentions = positive + negative + neutral.
C1_MentionsAreLabelled ==
    \A p \in Players :
        player_stats[p].mentions =
            player_stats[p].positive + player_stats[p].negative + player_stats[p].neutral

\* Finalized stats in which one entity has collected all three labels.
C1_Witness ==
    /\ Finalized
    /\ \E p \in Players :
          /\ player_stats[p].positive > 0
          /\ player_stats[p].negative > 0
          /\ player_stats[p].neutral > 0

C2_Step ==
    (pc = "metrics" /\ artIdx <= Len(all_articles) /\ artIdx' = artIdx + 1) =>
        LET M == Matched(all_articles[artIdx]) IN
        \A p \in Players :
            IF p \in M
            THEN player_stats'[p].mentions = player_stats[p].mentions + 1
            ELSE player_stats'[p] = player_stats[p]

C2_Total ==
    Finalized =>
        /\ metrics.total_mentions =
               SumOver([p \in Players |-> player_stats[p].mentions], Players)
        /\ metrics.total_mentions =
               SumOver([i \in 1..Len(all_articles) |-> Cardinality(Matched(all_articles[i]))],
                       1..Len(all_articles))

\* C2: processing one article whose title matches the entity set M adds exactly
\* 1 to the mention count of each entity of M and leaves the stats of every
\* other entity unchanged; total_mentions is the sum of the mention counts,
\* which is |M| summed over the articles.
C2_FanOut == [][C2_Step]_vars /\ []C2_Total

\* A finalized run with an article matching three entities, where
\* total_mentions exceeds total_articles.
C2_Witness ==
    /\ Finalized
    /\ \E i \in 1..Len(all_articles) : Cardinality(Matched(all_articles[i])) = 3
    /\ metrics.total_mentions > metrics.total_articles

C3_Valid(e) ==
    /\ e.title_tag # <<>>
    /\ e.title_tag[1].len > MinTitleLen
    /\ e.title_tag[1].len < MaxTitleLen

\* The fetch failed, or the extraction raised.
C3_Failed(resp) ==
    \/ ~resp.ok
    \/ \E i \in 1..Len(resp.elements) :
          i <= MaxCandidates /\ C3_Valid(resp.elements[i]) /\ resp.elements[i].anchor = "nohref"

RECURSIVE C3_Titles(_)
C3_Titles(elements) ==
    IF elements = <<>> THEN <<>>
    ELSE (IF C3_Valid(Head(elements)) THEN <<Head(elements).title_tag[1]>> ELSE <<>>)
         \o C3_Titles(Tail(elements))

\* The (title, source) pairs the sources 1..k owe to all_articles.
RECURSIVE C3_Owed(_)
C3_Owed(k) ==
    IF k = 0 THEN <<>>
    ELSE C3_Owed(k - 1) \o
         (IF C3_Failed(response[k]) THEN <<>>
          ELSE LET ts == C3_Titles(Take(response[k].elements, MaxCandidates))
               IN  [i \in 1..Len(ts) |-> <<ts[i], SourceOrder[k]>>])

\* C3: whatever sources fail, a failing source contributes no article, every
\* source is visited in configuration order, the articles of the successful
\* sources are all in the list given to calculate_metrics, in source order, and
\* the run is not aborted.
C3_FailuresAreIsolated ==
    /\ Len(response) = srcIdx - 1
    /\ [i \in 1..Len(all_articles) |-> <<all_articles[i].title, all_articles[i].source>>]
           = C3_Owed(Len(response))
    /\ (pc # "scrape" => srcIdx = Len(SourceOrder) + 1)
    /\ (pc \in {"scrape", "metrics"} \/ Finalized)

\* calculate_metrics is reached after a fetch failure and an extraction failure
\* were followed by a source that delivered articles.
C3_Witness ==
    /\ pc = "metrics"
    /\ \E i, j, k \in 1..Len(response) :
          /\ i < k /\ j < k
          /\ ~response[i].ok
          /\ response[j].ok /\ C3_Failed(response[j])
          /\ ~C3_Failed(response[k])
    /\ all_articles # <<>>

\* C4: every run of main ends normally: no uncaught error, the snapshot written
\* exactly once, then one status line per tracked entity and the prediction
\* lines.
C4_MainEndsNormally ==
    /\ pc # "crashed"
    /\ pc = "done" =>
          /\ Len(snapshots) = 1
          /\ console.status_lines = Len(PlayerOrder)
          /\ console.prediction_lines = 2

\* C5: when no entity is matched by any article, total_mentions = 0,
\* war_intensity = 0, the dominant entity is "none", every media_share and
\* sentiment_score is 0, and the report is fully populated: every entity
\* neutral and stable, and the three predictions present.
C5_EmptyRunDefaults ==
    (\A p \in Players : player_stats[p].mentions = 0) =>
        /\ Finalized =>
              /\ metrics.total_mentions = 0
              /\ metrics.war_intensity = 0
              /\ metrics.dominant_player = "none"
              /\ metrics.total_articles = Len(all_articles)
              /\ \A p \in Players :
                    /\ metrics.players[p].media_share = 0
                    /\ metrics.players[p].sentiment_score = 0
        /\ Reported =>
              /\ DOMAIN report.battlefield_status = Players
              /\ \A p \in Players :
                    /\ report.battlefield_status[p].posture = "neutral"
                    /\ report.battlefield_status[p].trend = "stable"
                    /\ report.battlefield_status[p].media_presence = 0
                    /\ report.battlefield_status[p].public_sentiment = 0
              /\ DOMAIN report.predictions = {"anura", "dilith", "coalition"}
              /\ report.predictions["anura"].confidence = 75
              /\ report.predictions["dilith"].confidence = 71
              /\ report.predictions["coalition"].formation_probability = 45

\* A report made from articles none of which matches an entity.
C5_Witness ==
    /\ Reported
    /\ all_articles # <<>>
    /\ \A p \in Players : player_stats[p].mentions = 0

\* C6: analyze_sentiment returns one label, positive iff pos_count > neg_count,
\* negative iff neg_count > pos_count, neutral iff equal; its score (hundredths)
\* is 50 + min(10*pos_count, 50), 50 - min(10*neg_count, 50) or 50, always in
\* 0..100; label and score are determined by pos_count and neg_count alone.
C6_SentimentRule ==
    pc = "analyzed" =>
        LET p == pos_count(text)
            n == neg_count(text)
        IN  /\ sentiment.sentiment \in {"positive", "negative", "neutral"}
            /\ (sentiment.sentiment = "positive") <=> (p > n)
            /\ (sentiment.sentiment = "negative") <=> (n > p)
            /\ (sentiment.sentiment = "neutral") <=> (p = n)
            /\ sentiment.score >= 0 /\ sentiment.score <= 100
            /\ p > n => sentiment.score = 50 + (IF p < 5 THEN 10 * p ELSE 50)
            /\ n > p => sentiment.score = 50 - (IF n < 5 THEN 10 * n ELSE 50)
            /\ p = n => sentiment.score = 50
            /\ sentiment.crisis_indicators = crisis_count(text)

\* A text with six positive keywords, fewer negative ones and a crisis keyword:
\* the score is capped at 1.0.
C6_Witness ==
    /\ pc = "analyzed"
    /\ pos_count(text) >= 6
    /\ neg_count(text) > 0
    /\ sentiment.crisis_indicators > 0
    /\ sentiment.sentiment = "positive"
    /\ sentiment.score = 100

C7_ShareSum == SumOver([p \in Players |-> metrics.players[p].media_share], Players)

\* C7: after finalization, with total_mentions > 0 each media_share is
\* mentions/total_mentions*100 rounded to one decimal and the shares sum to 100
\* within the rounding of five shares (0.2); with total_mentions = 0 every
\* media_share is 0.
C7_SharesSumTo100 ==
    Finalized =>
        IF metrics.total_mentions > 0
        THEN /\ \A p \in Players :
                   LET x == metrics.players[p].media_share
                       m == metrics.players[p].mentions
                   IN  /\ 2 * metrics.total_mentions * x <= 2000 * m + metrics.total_mentions
                       /\ 2 * metrics.total_mentions * x >= 2000 * m - metrics.total_mentions
             /\ C7_ShareSum >= 1000 - 2
             /\ C7_ShareSum <= 1000 + 2
        ELSE \A p \in Players : metrics.players[p].media_share = 0

\* Finalized shares that were rounded: they sum to 99.9.
C7_Witness ==
    /\ Finalized
    /\ metrics.total_mentions > 0
    /\ C7_ShareSum = 999

\* C8: the dominant entity has the maximal mention count and is the first such
\* entity in configuration order; it is "none" exactly when total_mentions = 0.
C8_DominantIsFirstMax ==
    Finalized =>
        /\ (metrics.dominant_player = "none") <=> (metrics.total_mentions = 0)
        /\ metrics.total_mentions > 0 =>
              \E i \in 1..Len(PlayerOrder) :
                 /\ metrics.dominant_player = PlayerOrder[i]
                 /\ \A q \in Players :
                       metrics.players[q].mentions <= metrics.players[PlayerOrder[i]].mentions
                 /\ \A j \in 1..(i - 1) :
                       metrics.players[PlayerOrder[j]].mentions
                           < metrics.players[PlayerOrder[i]].mentions

\* A tie for the maximum between the dominant entity and a later one, with an
\* earlier entity below the maximum.
C8_Witness ==
    /\ Finalized
    /\ metrics.total_mentions > 0
    /\ \E i, j, k \in 1..Len(PlayerOrder) :
          /\ i < j /\ j < k
          /\ metrics.dominant_player = PlayerOrder[j]
          /\ metrics.players[PlayerOrder[k]].mentions = metrics.players[PlayerOrder[j]].mentions
          /\ metrics.players[PlayerOrder[i]].mentions < metrics.players[PlayerOrder[j]].mentions

C9_Opposition ==
    metrics.players["dilith"].mentions + metrics.players["sajith"].mentions
        + metrics.players["namal"].mentions

\* C9: the coalition prediction is (0.73, '2-4 weeks', 'dilith') exactly when
\* the mentions of dilith, sajith and namal together are strictly more than 60%
\* of total_mentions, and (0.45, 'Uncertain', 'none') otherwise, also at exactly
\* 60% and at total_mentions = 0.
C9_CoalitionThreshold ==
    Reported =>
        LET c == report.predictions["coalition"] IN
        IF 100 * C9_Opposition > 60 * metrics.total_mentions
        THEN c = [formation_probability |-> 73, timeline |-> "2-4 weeks", leader |-> "dilith"]
        ELSE c = [formation_probability |-> 45, timeline |-> "Uncertain", leader |-> "none"]

\* A combined share of 70% selects 0.73.
C9_Witness ==
    /\ Reported
    /\ metrics.total_mentions > 0
    /\ 100 * C9_Opposition = 70 * metrics.total_mentions
    /\ report.predictions["coalition"].formation_probability = 73

\* A combined share of exactly 60%.
C9_AtThreshold ==
    /\ Reported
    /\ metrics.total_mentions > 0
    /\ 100 * C9_Opposition = 60 * metrics.total_mentions

RECURSIVE C10_Owed(_, _)
C10_Owed(elements, source) ==
    IF elements = <<>> THEN <<>>
    ELSE (IF C3_Valid(Head(elements))
          THEN <<[title |-> Head(elements).title_tag[1],
                  source |-> source,
                  url |-> IF Head(elements).anchor \in {"none", "nohref"}
                          THEN "" ELSE Head(elements).anchor,
                  timestamp |-> "now"]>>
          ELSE <<>>)
         \o C10_Owed(Tail(elements), source)

\* C10: every candidate element whose title is longer than 20 and shorter than
\* 200 characters yields exactly one article, whose url is the first anchor's
\* href when there is one and "" otherwise (no anchor, or an anchor without
\* href); the other elements yield none, and extraction goes on to the end.
C10_OneArticlePerValidElement ==
    pc = "extracted" => scraped = C10_Owed(Take(markup, MaxCandidates), SourceOrder[1])

====
